---- MODULE Spec2Model ----
(***************************************************************************)
(* typit - runtime type descriptors (EnumType, UnionType, OptionalType)    *)
(* and MalformedObjectError.                                               *)
(*                                                                         *)
(* Objects live on heaps (sequences indexed by allocation order), so that  *)
(* object identity, array aliasing and in-place mutation are visible:      *)
(*   types  - the Type objects constructed so far                          *)
(*   arrays - the string[] arrays allocated so far (error paths)           *)
(*   errors - the MalformedObjectError objects constructed so far          *)
(*   lastCall - the most recent call: method, receiver, argument, result   *)
(* JavaScript strings are sequences of one-character strings.              *)
(***************************************************************************)
EXTENDS Integers, Sequences, FiniteSets, TLC

VARIABLES types, arrays, errors, lastCall

vars == <<types, arrays, errors, lastCall>>

-----------------------------------------------------------------------------
(* Bounds *)

MaxTypes == 3

MaxEnums == 1

MaxVals == 2

MaxMembers == 2

MaxErrors == 3

MaxSegs == 1

SeqsUpTo(S, n) == UNION {[1..k -> S] : k \in 0..n}

-----------------------------------------------------------------------------
(* JavaScript values.  ref is the identity of an object, content what a    *)
(* structural comparison would look at.                                    *)

Undefined == [tag |-> "undefined", ref |-> 0, content |-> 0]

NaN == [tag |-> "nan", ref |-> 0, content |-> 0]

Obj1 == [tag |-> "object", ref |-> 1, content |-> 7]

Obj2 == [tag |-> "object", ref |-> 2, content |-> 7]

Values == {Undefined, NaN, Obj1, Obj2}

\* What a sparse array holds at an index it has no element for.
Hole == [tag |-> "hole", ref |-> 0, content |-> 0]

\* array[i] as a read sees it, for...of included: a hole reads undefined.
ElementAt(array, i) == IF array[i] = Hole THEN Undefined ELSE array[i]

\* The structural comparison === is NOT: same kind and same contents.
DeepEquals(a, b) == a.tag = b.tag /\ a.content = b.content

\* a === b: NaN equals nothing, objects are equal when they are one object.
StrictEquals(a, b) == a.tag # "nan" /\ b.tag # "nan" /\ a = b

-----------------------------------------------------------------------------
(* Strings *)

Str_enum == <<"e", "n", "u", "m">>

Str_sep == <<" ", "|", " ">>

Str_empty == <<>>

Str_A == <<"A">>

Str_BC == <<"B", " ", "C">>

\* String.prototype.includes(" ")
IncludesSpace(s) == \E i \in 1..Len(s) : s[i] = " "

\* The absent optional argument typeName (a tagged value, since a string
\* and undefined cannot be compared otherwise).
NoName == [given |-> FALSE, str |-> <<>>]

Name(s) == [given |-> TRUE, str |-> s]

-----------------------------------------------------------------------------
(* Type objects.  A reference to a Type is its index in the heap; a field  *)
(* a class does not have holds <<>> or 0.                                  *)

\* new EnumType(acceptableValues, typeName?)
EnumType(acceptableValues, typeName) ==
    [kind |-> "enum",
     typeName |-> IF typeName.given THEN typeName.str ELSE Str_enum,
     acceptableValues |-> acceptableValues,
     acceptableTypes |-> <<>>,
     encapsulatedType |-> 0]

\* The constructor's loop over the member types, from member i on, with
\* typeName the name accumulated so far.
RECURSIVE UnionTypeNameLoop(_, _, _, _)
UnionTypeNameLoop(h, memberTypes, i, typeName) ==
    IF i > Len(memberTypes) THEN typeName
    ELSE LET sep == IF typeName # Str_empty THEN typeName \o Str_sep ELSE typeName
         IN  UnionTypeNameLoop(h, memberTypes, i + 1, sep \o h[memberTypes[i]].typeName)

\* new UnionType(...types)
UnionType(h, memberTypes) ==
    [kind |-> "union",
     typeName |-> UnionTypeNameLoop(h, memberTypes, 1, Str_empty),
     acceptableValues |-> <<>>,
     acceptableTypes |-> memberTypes,
     encapsulatedType |-> 0]

\* new OptionalType(type) that never parenthesizes the wrapped name.
OptionalType_NoParentheses(h, type) ==
    [kind |-> "optional",
     typeName |-> h[type].typeName \o <<"?">>,
     acceptableValues |-> <<>>,
     acceptableTypes |-> <<>>,
     encapsulatedType |-> type]

\* new OptionalType(type)
OptionalType(h, type) ==
    LET encapsulatedTypeName == h[type].typeName
        doesTypeNameHaveSpaces == IncludesSpace(encapsulatedTypeName)
        wrapped == IF doesTypeNameHaveSpaces
                   THEN <<"(">> \o encapsulatedTypeName \o <<")">>
                   ELSE encapsulatedTypeName
    IN  [kind |-> "optional",
         typeName |-> wrapped \o <<"?">>,
         acceptableValues |-> <<>>,
         acceptableTypes |-> <<>>,
         encapsulatedType |-> type]

\* getTypeName() of the three classes: the stored name.
GetTypeName(h, t) == h[t].typeName

\* EnumType.checkConformity written with every() in place of some().
EnumCheckConformity_Every(this, input) ==
    \A i \in 1..Len(this.acceptableValues) :
        this.acceptableValues[i] # Hole
            => StrictEquals(this.acceptableValues[i], input)

\* EnumType.checkConformity.  some() calls back for the elements the array
\* has, not for its holes.
EnumCheckConformity(this, input) ==
    \E i \in 1..Len(this.acceptableValues) :
        /\ this.acceptableValues[i] # Hole
        /\ StrictEquals(this.acceptableValues[i], input)

\* EnumType.exhaustivelyCheckConformity: the loop from entry i on.
RECURSIVE EnumExhaustiveLoop(_, _, _, _)
EnumExhaustiveLoop(this, input, i, once) ==
    IF i > Len(this.acceptableValues) THEN once
    ELSE IF StrictEquals(ElementAt(this.acceptableValues, i), input)
         THEN IF once THEN FALSE
              ELSE EnumExhaustiveLoop(this, input, i + 1, TRUE)
         ELSE EnumExhaustiveLoop(this, input, i + 1, once)

\* EnumType.exhaustivelyCheckConformity returning at the first match.
EnumExhaustivelyCheckConformity_EarlyReturn(this, input) ==
    \E i \in 1..Len(this.acceptableValues) :
        StrictEquals(ElementAt(this.acceptableValues, i), input)

EnumExhaustivelyCheckConformity(this, input) ==
    EnumExhaustiveLoop(this, input, 1, FALSE)

RECURSIVE CheckConformity(_, _, _)
RECURSIVE ExhaustivelyCheckConformity(_, _, _)

\* UnionType.checkConformity asking only the first member type.
UnionCheckConformity_FirstOnly(h, this, input) ==
    /\ Len(this.acceptableTypes) > 0
    /\ CheckConformity(h, this.acceptableTypes[1], input)

\* UnionType.checkConformity
UnionCheckConformity(h, this, input) ==
    \E i \in 1..Len(this.acceptableTypes) :
        CheckConformity(h, this.acceptableTypes[i], input)

\* UnionType.exhaustivelyCheckConformity: the loop from member i on.
RECURSIVE UnionExhaustiveLoop(_, _, _, _, _)
UnionExhaustiveLoop(h, this, input, i, once) ==
    IF i > Len(this.acceptableTypes) THEN once
    ELSE IF CheckConformity(h, this.acceptableTypes[i], input)
         THEN IF once THEN FALSE
              ELSE UnionExhaustiveLoop(h, this, input, i + 1, TRUE)
         ELSE UnionExhaustiveLoop(h, this, input, i + 1, once)

\* UnionType.exhaustivelyCheckConformity returning at the first match.
UnionExhaustivelyCheckConformity_EarlyReturn(h, this, input) ==
    \E i \in 1..Len(this.acceptableTypes) :
        CheckConformity(h, this.acceptableTypes[i], input)

UnionExhaustivelyCheckConformity(h, this, input) ==
    UnionExhaustiveLoop(h, this, input, 1, FALSE)

\* OptionalType.getEncapsulatedType
GetEncapsulatedType(this) == this.encapsulatedType

\* OptionalType.checkConformity accepting the missing value by itself.
OptionalCheckConformity_AcceptsUndefined(h, this, input) ==
    \/ input = Undefined
    \/ CheckConformity(h, GetEncapsulatedType(this), input)

\* OptionalType.checkConformity
OptionalCheckConformity(h, this, input) ==
    CheckConformity(h, GetEncapsulatedType(this), input)

\* OptionalType.exhaustivelyCheckConformity
OptionalExhaustivelyCheckConformity(h, this, input) ==
    ExhaustivelyCheckConformity(h, GetEncapsulatedType(this), input)

\* type.checkConformity(input): the call dispatched on the object's class.
CheckConformity(h, t, input) ==
    CASE h[t].kind = "enum" -> EnumCheckConformity(h[t], input)
      [] h[t].kind = "union" -> UnionCheckConformity(h, h[t], input)
      [] h[t].kind = "optional" -> OptionalCheckConformity(h, h[t], input)

\* type.exhaustivelyCheckConformity(input), dispatched likewise.
ExhaustivelyCheckConformity(h, t, input) ==
    CASE h[t].kind = "enum" -> EnumExhaustivelyCheckConformity(h[t], input)
      [] h[t].kind = "union" -> UnionExhaustivelyCheckConformity(h, h[t], input)
      [] h[t].kind = "optional" -> OptionalExhaustivelyCheckConformity(h, h[t], input)

-----------------------------------------------------------------------------
(* Calls.  Every call leaves its receiver, argument and result in lastCall. *)

NoCall ==
    [op |-> "none", self |-> 0, input |-> Undefined, ret |-> FALSE,
     name |-> <<>>, args |-> <<>>, obj |-> 0]

Call(op, self, input, ret) ==
    [NoCall EXCEPT !.op = op, !.self = self, !.input = input, !.ret = ret]

\* The types a class has on the heap.
OfKind(h, k) == {t \in 1..Len(h) : h[t].kind = k}

NewEnum(acceptableValues, typeName) ==
    /\ types' = Append(types, EnumType(acceptableValues, typeName))
    /\ lastCall' = [NoCall EXCEPT !.op = "new EnumType", !.obj = Len(types) + 1]
    /\ UNCHANGED <<arrays, errors>>

NewUnion(memberTypes) ==
    /\ types' = Append(types, UnionType(types, memberTypes))
    /\ lastCall' = [NoCall EXCEPT !.op = "new UnionType", !.obj = Len(types) + 1]
    /\ UNCHANGED <<arrays, errors>>

NewOptional(type) ==
    /\ types' = Append(types, OptionalType(types, type))
    /\ lastCall' = [NoCall EXCEPT !.op = "new OptionalType", !.obj = Len(types) + 1]
    /\ UNCHANGED <<arrays, errors>>

CallGetTypeName(t) ==
    /\ lastCall' = [NoCall EXCEPT !.op = "getTypeName", !.self = t,
                                  !.name = GetTypeName(types, t)]
    /\ UNCHANGED <<types, arrays, errors>>

CallEnumCheckConformity(t, input) ==
    /\ t \in OfKind(types, "enum")
    /\ lastCall' = Call("checkConformity", t, input,
                        EnumCheckConformity(types[t], input))
    /\ UNCHANGED <<types, arrays, errors>>

CallEnumExhaustivelyCheckConformity(t, input) ==
    /\ t \in OfKind(types, "enum")
    /\ lastCall' = Call("exhaustivelyCheckConformity", t, input,
                        EnumExhaustivelyCheckConformity(types[t], input))
    /\ UNCHANGED <<types, arrays, errors>>

CallUnionCheckConformity(t, input) ==
    /\ t \in OfKind(types, "union")
    /\ lastCall' = Call("checkConformity", t, input,
                        UnionCheckConformity(types, types[t], input))
    /\ UNCHANGED <<types, arrays, errors>>

CallUnionExhaustivelyCheckConformity(t, input) ==
    /\ t \in OfKind(types, "union")
    /\ lastCall' = Call("exhaustivelyCheckConformity", t, input,
                        UnionExhaustivelyCheckConformity(types, types[t], input))
    /\ UNCHANGED <<types, arrays, errors>>

CallOptionalCheckConformity(t, input) ==
    /\ t \in OfKind(types, "optional")
    /\ lastCall' = Call("checkConformity", t, input,
                        OptionalCheckConformity(types, types[t], input))
    /\ UNCHANGED <<types, arrays, errors>>

CallOptionalExhaustivelyCheckConformity(t, input) ==
    /\ t \in OfKind(types, "optional")
    /\ lastCall' = Call("exhaustivelyCheckConformity", t, input,
                        OptionalExhaustivelyCheckConformity(types, types[t], input))
    /\ UNCHANGED <<types, arrays, errors>>

-----------------------------------------------------------------------------
(* Spec: unions and optional wrappers over enumerations.                   *)

Init ==
    /\ types = <<>>
    /\ arrays = <<>>
    /\ errors = <<>>
    /\ lastCall = NoCall

\* The value lists of the member enumerations and the inputs checked.
MemberValueLists == {<<>>, <<Obj1>>}

Inputs == {Undefined, Obj1}

Next ==
    \/ Len(types) < MaxTypes /\ \E vals \in MemberValueLists : NewEnum(vals, NoName)
    \/ Len(types) < MaxTypes
         /\ \E ms \in SeqsUpTo(1..Len(types), MaxMembers) : NewUnion(ms)
    \/ Len(types) < MaxTypes /\ \E t \in 1..Len(types) : NewOptional(t)
    \/ \E t \in OfKind(types, "enum"), x \in Inputs : CallEnumCheckConformity(t, x)
    \/ \E t \in OfKind(types, "enum"), x \in Inputs : CallEnumExhaustivelyCheckConformity(t, x)
    \/ \E t \in OfKind(types, "union"), x \in Inputs : CallUnionCheckConformity(t, x)
    \/ \E t \in OfKind(types, "union"), x \in Inputs : CallUnionExhaustivelyCheckConformity(t, x)
    \/ \E t \in OfKind(types, "optional"), x \in Inputs : CallOptionalCheckConformity(t, x)
    \/ \E t \in OfKind(types, "optional"), x \in Inputs : CallOptionalExhaustivelyCheckConformity(t, x)

Spec == Init /\ [][Next]_vars

-----------------------------------------------------------------------------
(* Claims on Spec *)

IsCall(op, kind) ==
    /\ lastCall.op = op
    /\ lastCall.self \in OfKind(types, kind)

\* The positions of the receiver's member list whose member accepts the input.
MatchingMembers ==
    {i \in 1..Len(types[lastCall.self].acceptableTypes) :
        CheckConformity(types, types[lastCall.self].acceptableTypes[i], lastCall.input)}

\* C1: checkConformity of a union with at least one member returns true
\* exactly when some member's checkConformity accepts the input.
C1_UnionAcceptsIffSomeMember ==
    (IsCall("checkConformity", "union")
        /\ types[lastCall.self].acceptableTypes # <<>>)
    => (lastCall.ret <=> MatchingMembers # {})

\* A union of two members accepted the input through its second member only.
C1_Witness ==
    /\ IsCall("checkConformity", "union")
    /\ Len(types[lastCall.self].acceptableTypes) = 2
    /\ MatchingMembers = {2}
    /\ lastCall.ret

\* C2: exhaustivelyCheckConformity of a union returns true exactly when
\* one position of the member list holds a member accepting the input.
C2_UnionExhaustiveIffExactlyOne ==
    IsCall("exhaustivelyCheckConformity", "union")
    => (lastCall.ret <=> Cardinality(MatchingMembers) = 1)

\* Two different members of a union both accepted the input, and the
\* exhaustive check returned false.
C2_Witness ==
    /\ IsCall("exhaustivelyCheckConformity", "union")
    /\ MatchingMembers = {1, 2}
    /\ types[lastCall.self].acceptableTypes[1] # types[lastCall.self].acceptableTypes[2]
    /\ ~lastCall.ret

\* C5: both checks of an optional wrapper return what the same check of
\* the wrapped type returns, for undefined as for any other input.
C5_OptionalDelegates ==
    /\ IsCall("checkConformity", "optional")
       => lastCall.ret =
            CheckConformity(types, types[lastCall.self].encapsulatedType, lastCall.input)
    /\ IsCall("exhaustivelyCheckConformity", "optional")
       => lastCall.ret =
            ExhaustivelyCheckConformity(types, types[lastCall.self].encapsulatedType,
                                        lastCall.input)
    /\ (IsCall("checkConformity", "optional")
          /\ lastCall.input = Undefined
          /\ ~CheckConformity(types, types[lastCall.self].encapsulatedType, Undefined))
       => ~lastCall.ret

\* A wrapper was asked about undefined and refused it, its wrapped type
\* refusing it.
C5_Witness ==
    /\ IsCall("checkConformity", "optional")
    /\ lastCall.input = Undefined
    /\ ~CheckConformity(types, types[lastCall.self].encapsulatedType, Undefined)
    /\ ~lastCall.ret

\* C10: a union without member types and an enumeration without values
\* return false from both checks, whatever the input.
C10_EmptyDefinitionNeverConforms ==
    /\ (lastCall.op \in {"checkConformity", "exhaustivelyCheckConformity"}
          /\ lastCall.self \in OfKind(types, "union")
          /\ types[lastCall.self].acceptableTypes = <<>>)
       => ~lastCall.ret
    /\ (lastCall.op \in {"checkConformity", "exhaustivelyCheckConformity"}
          /\ lastCall.self \in OfKind(types, "enum")
          /\ types[lastCall.self].acceptableValues = <<>>)
       => ~lastCall.ret

\* An enumeration without values was asked about a value and refused it.
C10_Witness ==
    /\ IsCall("checkConformity", "enum")
    /\ types[lastCall.self].acceptableValues = <<>>
    /\ lastCall.input = Obj1
    /\ ~lastCall.ret

-----------------------------------------------------------------------------
(* SpecEnum: enumerations over every kind of value, sparse lists included. *)

\* What the acceptableValues arrays hold.
ListValues == {Undefined, NaN, Obj1, Hole}

NextEnum ==
    \/ Len(types) < MaxEnums
         /\ \E vals \in SeqsUpTo(ListValues, MaxVals) : NewEnum(vals, NoName)
    \/ \E t \in OfKind(types, "enum"), x \in Values : CallEnumCheckConformity(t, x)
    \/ \E t \in OfKind(types, "enum"), x \in Values :
           CallEnumExhaustivelyCheckConformity(t, x)

SpecEnum == Init /\ [][NextEnum]_vars

-----------------------------------------------------------------------------
(* Claims on SpecEnum *)

\* a === b as the language defines it: the same value, and not NaN.
IsStrictlyEqual(a, b) == a = b /\ a.tag # "nan"

\* The entries of the receiver's value list strictly equal to the input: the
\* elements the list has, a hole being none.
EqualEntries ==
    {i \in 1..Len(types[lastCall.self].acceptableValues) :
        IsStrictlyEqual(types[lastCall.self].acceptableValues[i], lastCall.input)}

\* checkConformity is true exactly for the inputs strictly equal to an entry.
EnumAcceptsIffStrictlyEqual ==
    IsCall("checkConformity", "enum") => (lastCall.ret <=> EqualEntries # {})

\* C3 as stated: true iff strictly equal to an entry; and for a list
\* [a, b] with a !== b, checkConformity(a) is true and checkConformity(c)
\* is false for every c strictly unequal to both.
C3_Original ==
    /\ EnumAcceptsIffStrictlyEqual
    /\ LET L == types[lastCall.self].acceptableValues
       IN  (IsCall("checkConformity", "enum")
              /\ Len(L) = 2 /\ ~IsStrictlyEqual(L[1], L[2]))
           => /\ lastCall.input = L[1] => lastCall.ret
              /\ (~IsStrictlyEqual(lastCall.input, L[1])
                    /\ ~IsStrictlyEqual(lastCall.input, L[2])) => ~lastCall.ret

\* C3: checkConformity of an enumeration is true exactly for the inputs
\* strictly equal to an entry (never for a structurally equal other object);
\* for a list [a, b] with a !== b and a === a, checkConformity(a) is true, and
\* checkConformity(c) is false for every c strictly unequal to both.
C3_EnumStrictEquality ==
    /\ EnumAcceptsIffStrictlyEqual
    /\ LET L == types[lastCall.self].acceptableValues
       IN  (IsCall("checkConformity", "enum")
              /\ Len(L) = 2 /\ ~IsStrictlyEqual(L[1], L[2]))
           => /\ (lastCall.input = L[1] /\ IsStrictlyEqual(L[1], L[1])) => lastCall.ret
              /\ (~IsStrictlyEqual(lastCall.input, L[1])
                    /\ ~IsStrictlyEqual(lastCall.input, L[2])) => ~lastCall.ret

\* An enumeration listing one object refused another object of identical
\* contents.
C3_Witness ==
    /\ IsCall("checkConformity", "enum")
    /\ types[lastCall.self].acceptableValues = <<Obj1, Undefined>>
    /\ lastCall.input = Obj2
    /\ DeepEquals(lastCall.input, Obj1)
    /\ ~lastCall.ret

\* The positions of the receiver's value list that read as a value strictly
\* equal to the input, a hole reading as undefined.
EqualPositions ==
    {i \in 1..Len(types[lastCall.self].acceptableValues) :
        LET v == types[lastCall.self].acceptableValues[i]
        IN  IsStrictlyEqual(IF v = Hole THEN Undefined ELSE v, lastCall.input)}

\* exhaustivelyCheckConformity is true exactly when one position of the
\* list is strictly equal to the input.
EnumExhaustiveIffExactlyOne ==
    IsCall("exhaustivelyCheckConformity", "enum")
    => (lastCall.ret <=> Cardinality(EqualPositions) = 1)

\* Two elements of the receiver's value list are the value a = lastCall.input.
InputListedTwice ==
    \E i, j \in 1..Len(types[lastCall.self].acceptableValues) :
        /\ i # j
        /\ types[lastCall.self].acceptableValues[i] = lastCall.input
        /\ types[lastCall.self].acceptableValues[j] = lastCall.input

\* C4 as stated: true iff exactly one position is strictly equal to the
\* input; when a value a is listed twice, exhaustivelyCheckConformity(a)
\* is false while checkConformity(a) is true.
C4_Original ==
    /\ EnumExhaustiveIffExactlyOne
    /\ (IsCall("exhaustivelyCheckConformity", "enum") /\ InputListedTwice)
       => ~lastCall.ret
    /\ (IsCall("checkConformity", "enum") /\ InputListedTwice)
       => lastCall.ret

\* C4: exhaustivelyCheckConformity of an enumeration is true exactly when
\* one position of the list is strictly equal to the input (a hole of a
\* sparse list reading as undefined); when a value a is listed twice,
\* exhaustivelyCheckConformity(a) is false, and checkConformity(a) is true
\* provided a === a.
C4_EnumExhaustive ==
    /\ EnumExhaustiveIffExactlyOne
    /\ (IsCall("exhaustivelyCheckConformity", "enum") /\ InputListedTwice)
       => ~lastCall.ret
    /\ (IsCall("checkConformity", "enum") /\ InputListedTwice
          /\ IsStrictlyEqual(lastCall.input, lastCall.input))
       => lastCall.ret

\* The exhaustive check refused an object listed twice.
C4_Witness ==
    /\ IsCall("exhaustivelyCheckConformity", "enum")
    /\ types[lastCall.self].acceptableValues = <<Obj1, Obj1>>
    /\ lastCall.input = Obj1
    /\ ~lastCall.ret

-----------------------------------------------------------------------------
(* SpecNames: the names of unions and optional wrappers over named         *)
(* enumerations.                                                           *)

\* The typeName arguments given to the enumerations.
NameArgs == {NoName, Name(Str_empty), Name(Str_A), Name(Str_BC)}

NextNames ==
    \/ Len(types) < MaxTypes /\ \E name \in NameArgs : NewEnum(<<>>, name)
    \/ Len(types) < MaxTypes
         /\ \E ms \in SeqsUpTo(1..Len(types), MaxMembers) : NewUnion(ms)
    \/ Len(types) < MaxTypes /\ \E t \in 1..Len(types) : NewOptional(t)
    \/ \E t \in 1..Len(types) : CallGetTypeName(t)

SpecNames == Init /\ [][NextNames]_vars

-----------------------------------------------------------------------------
(* Claims on SpecNames *)

\* names[i], names[i+1], ... joined with " | " between neighbours.
RECURSIVE JoinFrom(_, _)
JoinFrom(names, i) ==
    IF i > Len(names) THEN <<>>
    ELSE IF i = Len(names) THEN names[i]
    ELSE names[i] \o Str_sep \o JoinFrom(names, i + 1)

\* The names of the receiver's member types, in list order.
MemberNames ==
    [i \in 1..Len(types[lastCall.self].acceptableTypes) |->
        types[types[lastCall.self].acceptableTypes[i]].typeName]

RECURSIVE SumLen(_, _)
SumLen(names, i) ==
    IF i > Len(names) THEN 0 ELSE Len(names[i]) + SumLen(names, i + 1)

\* C8: getTypeName of a union is the member names joined with " | " in
\* list order, whatever the names are, so that a union of n >= 1 members
\* has n - 1 separators around its member names.
C8_UnionNameIsJoin ==
    IsCall("getTypeName", "union")
    => /\ lastCall.name = JoinFrom(MemberNames, 1)
       /\ Len(MemberNames) >= 1
          => Len(lastCall.name)
               = SumLen(MemberNames, 1) + Len(Str_sep) * (Len(MemberNames) - 1)

\* C9: getTypeName of an optional wrapper is the wrapped type's name n
\* followed by "?", with n in parentheses exactly when n contains a space;
\* it always ends with "?".
C9_OptionalName ==
    IsCall("getTypeName", "optional")
    => LET n == types[types[lastCall.self].encapsulatedType].typeName
       IN  /\ (\A i \in 1..Len(n) : n[i] # " ") => lastCall.name = n \o <<"?">>
           /\ (\E i \in 1..Len(n) : n[i] = " ")
              => lastCall.name = <<"(">> \o n \o <<")", "?">>
           /\ lastCall.name[Len(lastCall.name)] = "?"

\* The name of a wrapper around a union of two members was asked for, and is
\* parenthesized.
C9_Witness ==
    /\ IsCall("getTypeName", "optional")
    /\ types[lastCall.self].encapsulatedType \in OfKind(types, "union")
    /\ Len(types[types[lastCall.self].encapsulatedType].acceptableTypes) = 2
    /\ lastCall.name[1] = "("

-----------------------------------------------------------------------------
(* MalformedObjectError.  An error holds references: path is the index of  *)
(* a string[] in arrays; expectedType and actualType are Type references.  *)

\* A reference to a Type object of the heap.
HeapRef(t) == [heap |-> t, inferred |-> ""]

\* TypeInferer.infer(value): the descriptor of the value's kind, an object
\* of the inferer and never one the caller constructed.
Infer(value) == [heap |-> 0, inferred |-> value.tag]

\* The absent optional argument actualType.
NoType == [given |-> FALSE, ref |-> HeapRef(0)]

GivenType(ref) == [given |-> TRUE, ref |-> ref]

\* The constructor's loop appending "." + pathItem from item i on.
RECURSIVE ReadablePathLoop(_, _, _)
ReadablePathLoop(path, i, readablePath) ==
    IF i > Len(path) THEN readablePath
    ELSE ReadablePathLoop(path, i + 1, readablePath \o <<".", path[i]>>)

\* new MalformedObjectError(path, expectedType, actualValue, actualType?)
\* with a the arrays and path the reference to the array passed.
MalformedObjectError(a, path, expectedType, actualValue, actualType) ==
    [path |-> path,
     readablePath |-> ReadablePathLoop(a[path], 1, <<"*">>),
     expectedType |-> expectedType,
     actualType |-> IF actualType.given THEN actualType.ref ELSE Infer(actualValue),
     actualValue |-> actualValue]

\* prependPath written to prepend onto this.path in place.
PrependPath_InPlace(a, this, path) ==
    LET mutated == [a EXCEPT ![this.path] = path \o @]
    IN  [arrays |-> mutated,
         error |-> MalformedObjectError(mutated, this.path, this.expectedType,
                                        this.actualValue, NoType)]

\* this.prependPath(...path): the rest arguments are a new array, onto which
\* the items of this.path are pushed and which the new error is given.
\* Yields the arrays after the call and the error returned.
PrependPath(a, this, path) ==
    LET rest == Len(a) + 1
        pushed == Append(a, path \o a[this.path])
    IN  [arrays |-> pushed,
         error |-> MalformedObjectError(pushed, rest, this.expectedType,
                                        this.actualValue, NoType)]

NewError(path, expectedType, actualValue, actualType) ==
    LET allocated == Append(arrays, path)
    IN  /\ arrays' = allocated
        /\ errors' = Append(errors,
                            MalformedObjectError(allocated, Len(allocated), expectedType,
                                                 actualValue, actualType))
        /\ lastCall' = [NoCall EXCEPT !.op = "new MalformedObjectError",
                                      !.obj = Len(errors) + 1]
        /\ UNCHANGED types

CallPrependPath(f, path) ==
    LET result == PrependPath(arrays, errors[f], path)
    IN  /\ arrays' = result.arrays
        /\ errors' = Append(errors, result.error)
        /\ lastCall' = [NoCall EXCEPT !.op = "prependPath", !.self = f,
                                      !.args = path, !.obj = Len(errors) + 1]
        /\ UNCHANGED types

-----------------------------------------------------------------------------
(* SpecErrors: errors about two enumerations, and their prepended copies.  *)

Segments == {"a", "b"}

ErrorValues == {Undefined, Obj1}

InitErrors ==
    /\ types = <<EnumType(<<>>, NoName), EnumType(<<Obj2>>, NoName)>>
    /\ arrays = <<>>
    /\ errors = <<>>
    /\ lastCall = NoCall

NextErrors ==
    \/ Len(errors) < MaxErrors
         /\ \E path \in SeqsUpTo(Segments, MaxSegs), v \in ErrorValues,
               t \in {NoType, GivenType(HeapRef(2))} :
               NewError(path, HeapRef(1), v, t)
    \/ Len(errors) < MaxErrors
         /\ \E f \in 1..Len(errors), path \in SeqsUpTo(Segments, MaxSegs) :
               CallPrependPath(f, path)

SpecErrors == InitErrors /\ [][NextErrors]_vars

-----------------------------------------------------------------------------
(* Claims on SpecErrors *)

\* C6: prependPath returns a record other than its receiver, with an array
\* of its own holding the segments followed by the receiver's path; and no
\* call changes the path or the readablePath (or any field) of an error
\* that exists.
C6_PrependPathNonMutating ==
    [][/\ \A f \in 1..Len(errors) :
            /\ f <= Len(errors')
            /\ errors'[f] = errors[f]
            /\ arrays'[errors'[f].path] = arrays[errors[f].path]
       /\ lastCall'.op = "prependPath"
          => /\ lastCall'.obj # lastCall'.self
             /\ lastCall'.obj \notin 1..Len(errors)
             /\ errors'[lastCall'.obj].path # errors[lastCall'.self].path
             /\ arrays'[errors'[lastCall'.obj].path]
                  = lastCall'.args \o arrays[errors[lastCall'.self].path]
             /\ errors'[lastCall'.obj].readablePath
                  = ReadablePathLoop(arrays'[errors'[lastCall'.obj].path], 1, <<"*">>)
      ]_vars

\* A segment was prepended to the copy of an error whose path was not empty.
C6_Witness ==
    /\ lastCall.op = "prependPath"
    /\ lastCall.args = <<"a">>
    /\ arrays[errors[lastCall.self].path] = <<"b">>
    /\ arrays[errors[lastCall.obj].path] = <<"a", "b">>
    /\ errors[lastCall.obj].readablePath = <<"*", ".", "a", ".", "b">>

\* C7: the record prependPath returns has the expectedType, the actualType
\* and the actualValue of its receiver, however the receiver was constructed.
C7_PrependPathPreservesFields ==
    lastCall.op = "prependPath"
    => /\ errors[lastCall.obj].expectedType = errors[lastCall.self].expectedType
       /\ errors[lastCall.obj].actualType = errors[lastCall.self].actualType
       /\ errors[lastCall.obj].actualValue = errors[lastCall.self].actualValue

====
